---------------------------- MODULE Spec2Model ----------------------------
(***************************************************************************)
(* CookieReaderExtension: the background Holder of the cookie Buffer       *)
(* (src/src/background.js) and the popup's two UI actions, get-cookies and *)
(* copy-to-clipboard, in their two implementations (src/src/popup.js and   *)
(* src/unnamed/part_000).                                                  *)
(***************************************************************************)
EXTENDS Integers, Sequences, FiniteSets, TLC

VARIABLES
    impl,          \* which popup script the extension page loads
    byReference,   \* whether the message transport hands arrays over by reference
    objs,          \* the array objects that are shared when byReference
    cookiesHeap,   \* background.js: let cookiesHeap
    pc,            \* position of each UI action instance
    loc,           \* the locals of each UI action instance
    msgs,          \* requests in flight, per sender
    port,          \* what the sender's sendMessage callback will be called with
    errorBanner,   \* DOM element 'error' (innerHTML)
    clipboard,     \* the system clipboard: the text last written to it
    used,          \* clicks and foreign messages so far
    fn             \* one application of a pure function: its input and result

vars == <<impl, byReference, objs, cookiesHeap, pc, loc, msgs, port,
          errorBanner, clipboard, used, fn>>

-----------------------------------------------------------------------------
(* Bounds *)

MaxLabels == 3      \* labels of a hostname given to getSubdomains
MaxLen == 2         \* length of each sequence given to mergeAndDedupeCookies
MaxClicks == 2      \* clicks on the two buttons
MaxOther == 1       \* messages of an unknown type sent to the Holder

-----------------------------------------------------------------------------
(* Sequences as JavaScript arrays, Sets and Maps *)

Range(s) == {s[i] : i \in 1..Len(s)}

NoDuplicates(s) == \A i, j \in 1..Len(s) : s[i] = s[j] => i = j

\* Set.prototype.add: insertion-ordered, an element already there stays put
SetAdd(s, x) == IF x \in Range(s) THEN s ELSE Append(s, x)

\* the mutant: a key already there keeps the value it has
MapSetKeepsOld(m, k, v) ==
    IF \E i \in 1..Len(m) : m[i][1] = k THEN m ELSE Append(m, <<k, v>>)

\* Map.prototype.set on a Map held as a sequence of <<key, value>> entries:
\* a key already there keeps its place and takes the new value
MapSet(m, k, v) ==
    IF \E i \in 1..Len(m) : m[i][1] = k
    THEN [i \in 1..Len(m) |-> IF m[i][1] = k THEN <<k, v>> ELSE m[i]]
    ELSE Append(m, <<k, v>>)

\* Array.from(map.values())
MapValues(m) == [i \in 1..Len(m) |-> m[i][2]]

\* all sequences over S of length at most n
SeqsUpTo(S, n) == UNION {[1..k -> S] : k \in 0..n}

-----------------------------------------------------------------------------
(* getSubdomains *)

\* parts.slice(i) with a 0-based i
Slice(parts, i) == SubSeq(parts, i + 1, Len(parts))

\* parts.join('.')
RECURSIVE Join(_)
Join(parts) ==
    IF Len(parts) = 0 THEN ""
    ELSE IF Len(parts) = 1 THEN parts[1]
    ELSE parts[1] \o "." \o Join(Tail(parts))

\* the for loop of getSubdomains, from index i up to (not including) limit
RECURSIVE SubdomainLoop(_, _, _, _)
SubdomainLoop(parts, i, limit, subdomains) ==
    IF i < limit
    THEN LET subdomain == Join(Slice(parts, i))
         IN SubdomainLoop(parts, i + 1, limit,
                          SetAdd(SetAdd(subdomains, subdomain), "." \o subdomain))
    ELSE subdomains

\* the mutant: the loop runs to parts.length and takes the last label alone too
getSubdomainsToLastLabel(parts) ==
    LET looped == SubdomainLoop(parts, 0, Len(parts), <<>>)
    IN IF Len(parts) > 1
       THEN LET mainDomain == Join(Slice(parts, Len(parts) - 2))
            IN SetAdd(SetAdd(looped, mainDomain), "." \o mainDomain)
       ELSE looped

\* getSubdomains(url), given url.hostname.split('.')
getSubdomains(parts) ==
    LET looped == SubdomainLoop(parts, 0, Len(parts) - 1, <<>>)
    IN IF Len(parts) > 1
       THEN LET mainDomain == Join(Slice(parts, Len(parts) - 2))
            IN SetAdd(SetAdd(looped, mainDomain), "." \o mainDomain)
       ELSE looped

-----------------------------------------------------------------------------
(* cleanCookie *)

StrippedFields == {"storeId", "hostOnly", "expirationDate", "session"}

\* the mutant: session is not taken out of the rest
cleanCookieKeepsSession(cookie, origin) ==
    [f \in ((DOMAIN cookie) \ {"storeId", "hostOnly", "expirationDate"}) \cup {"url"} |->
        IF f = "url" THEN origin ELSE cookie[f]]

\* cleanCookie(cookie, url), given url.origin
cleanCookie(cookie, origin) ==
    [f \in ((DOMAIN cookie) \ StrippedFields) \cup {"url"} |->
        IF f = "url" THEN origin ELSE cookie[f]]

-----------------------------------------------------------------------------
(* mergeAndDedupeCookies *)

\* `${cookie.name}_${cookie.domain}`
CookieKey(cookie) == cookie.name \o "_" \o cookie.domain

\* cookies.forEach(cookie => cookieMap.set(key, cookie)) from index i on
RECURSIVE FoldCookies(_, _, _)
FoldCookies(cookieMap, cookies, i) ==
    IF i > Len(cookies) THEN cookieMap
    ELSE FoldCookies(MapSet(cookieMap, CookieKey(cookies[i]), cookies[i]), cookies, i + 1)

\* the mutant: a key already in the map keeps its first record
RECURSIVE FoldCookiesFirstWins(_, _, _)
FoldCookiesFirstWins(cookieMap, cookies, i) ==
    IF i > Len(cookies) THEN cookieMap
    ELSE FoldCookiesFirstWins(
            IF \E j \in 1..Len(cookieMap) : cookieMap[j][1] = CookieKey(cookies[i])
            THEN cookieMap
            ELSE Append(cookieMap, <<CookieKey(cookies[i]), cookies[i]>>),
            cookies, i + 1)

mergeFirstWins(existingCookies, newCookies) ==
    MapValues(FoldCookiesFirstWins(<<>>, existingCookies \o newCookies, 1))

\* mergeAndDedupeCookies(existingCookies, newCookies)
mergeAndDedupeCookies(existingCookies, newCookies) ==
    MapValues(FoldCookies(<<>>, existingCookies \o newCookies, 1))

-----------------------------------------------------------------------------
(* The world the popup runs in *)

Procs == {"p1", "p2"}            \* concurrent runs of the click handlers
Actors == Procs \cup {"main"}    \* "main": the script's top level (initialize)
Senders == Actors \cup {"ext"}   \* "ext": another context of the extension
ObjIds == 0..Cardinality(Actors) \* array objects alive at once when byReference

\* a click starts a new run of its handler: the runs are told apart by the
\* slot they take, and a new run takes the first free one
Slot(p) == IF p = "p1" THEN 1 ELSE 2

Impls == {"popup", "part_000"}

\* the active tab's URL, as new URL(tab.url) parses it
Pages == { [origin |-> "https://e.c", hostname |-> <<"e", "c">>],
           [origin |-> "http://localhost", hostname |-> <<"localhost">>] }

\* cookie objects of the cookie store
RawA(v) == [name |-> "sid", domain |-> ".e.c", value |-> v, httpOnly |-> TRUE,
            storeId |-> "0", hostOnly |-> FALSE, expirationDate |-> 99,
            session |-> FALSE]
RawB == [name |-> "t", domain |-> "e.c", value |-> "v1", httpOnly |-> FALSE,
         storeId |-> "0", hostOnly |-> TRUE, session |-> TRUE]

\* what chrome.cookies.getAll({ domain }) may resolve to: the store changes
\* between queries (nothing, both cookies, or "sid" alone with a newer value)
Answers == { <<>>, <<RawA("v2")>>, <<RawA("v1"), RawB>> }

\* a JavaScript value held either in place or as a reference to a shared array
Val(v) == [val |-> v]
Ref(i) == [ref |-> i]
IsRef(x) == "ref" \in DOMAIN x
Deref(o, x) == IF IsRef(x) THEN o[x.ref] ELSE x.val

NoMsg == [type |-> "none"]
NoPort == [kind |-> "none"]
EmptyLoc == [origin |-> "", pending |-> {}, cookieMap |-> <<>>, cookies |-> <<>>,
             payload |-> <<>>]

\* the array objects some context still refers to
RefOf(x) == IF IsRef(x) THEN {x.ref} ELSE {}
LiveRefs(ch, po, ms) ==
    RefOf(ch)
    \cup UNION {RefOf(po[s].body.value) : s \in {t \in Senders :
                    po[t].kind = "response" /\ "value" \in DOMAIN po[t].body}}
    \cup UNION {RefOf(ms[s].value) : s \in {t \in Senders : ms[t].type = "setCookiesHeap"}}

\* objects nobody refers to are dropped
Collect(o, live) == [i \in ObjIds |-> IF i \in live THEN o[i] ELSE <<>>]

FreeId(live) == CHOOSE i \in ObjIds \ live : \A j \in ObjIds \ live : i <= j

\* MESSAGES / Messages
EmptyHeap == "EMPTY_HEAP"
NoResponse == "No response or value undefined"
UpdateFailed == "Failed to update global variable"
\* error.message of what the platform rejects with
LastError == "runtime.lastError"
TabError == "no tab url"
CookiesError == "cookies.getAll rejected"
ClipboardError == "writeText rejected"

\* the banner texts of the catch blocks
GetError(message) == "get: " \o message
CopyError(message) == "copy: " \o message
InitError(message) == "init: " \o message

-----------------------------------------------------------------------------
(* Message wrappers: chromeApi / ChromeAPIService *)

\* sendMessage: the promise settles from the callback's (response, lastError)
sendMessage(p) ==
    IF p.kind = "lastError" THEN [rejected |-> TRUE, message |-> LastError]
    ELSE IF p.kind = "response" THEN [rejected |-> FALSE, defined |-> TRUE, response |-> p.body]
    ELSE [rejected |-> FALSE, defined |-> FALSE]

\* getCookiesHeap: throws unless response?.value is truthy (an array always is)
getCookiesHeap(p) ==
    LET r == sendMessage(p)
    IN IF r.rejected THEN [threw |-> TRUE, message |-> r.message]
       ELSE IF ~(r.defined /\ "value" \in DOMAIN r.response)
            THEN [threw |-> TRUE, message |-> NoResponse]
            ELSE [threw |-> FALSE, value |-> r.response.value]

\* JavaScript values with their type, for === between types
JsBool(b) == [t |-> "boolean", v |-> b]
JsString(s) == [t |-> "string", v |-> s]
StrictEquals(a, b) == a.t = b.t /\ a.v = b.v

\* response?.status is truthy
StatusTruthy(r) == r.defined /\ "status" \in DOMAIN r.response /\ r.response.status # ""

\* setCookiesHeap: throws on rejection or when (!response?.status === "success")
setCookiesHeap(p) ==
    LET r == sendMessage(p)
    IN IF r.rejected THEN [threw |-> TRUE, message |-> r.message]
       ELSE IF StrictEquals(JsBool(~StatusTruthy(r)), JsString("success"))
            THEN [threw |-> TRUE, message |-> UpdateFailed]
            ELSE [threw |-> FALSE]

-----------------------------------------------------------------------------
(* The Holder: background.js *)

\* the mutant: whatever is not setCookiesHeap is answered with the heap
ListenerAnswersAll(heap, message) ==
    IF message.type = "setCookiesHeap"
    THEN [cookiesHeap |-> message.value,
          port |-> [kind |-> "response", body |-> [status |-> "success"]]]
    ELSE [cookiesHeap |-> heap, port |-> [kind |-> "response", body |-> [value |-> heap]]]

\* the onMessage listener: the new cookiesHeap and what sendResponse was given
Listener(heap, message) ==
    IF message.type = "getCookiesHeap"
    THEN [cookiesHeap |-> heap, port |-> [kind |-> "response", body |-> [value |-> heap]]]
    ELSE IF message.type = "setCookiesHeap"
    THEN [cookiesHeap |-> message.value,
          port |-> [kind |-> "response", body |-> [status |-> "success"]]]
    ELSE [cookiesHeap |-> heap, port |-> [kind |-> "noResponse"]]

-----------------------------------------------------------------------------
(* Export: camelToSnake and JSON.stringify *)

\* key.replace(/([A-Z])/g, '_$1').replace(/^_/, '').toLowerCase(), on the keys
\* of the records held here
SnakeKey(key) == IF key = "httpOnly" THEN "http_only" ELSE key

\* camelToSnake of one record (its values are scalars, which it returns as is)
SnakeRecord(r) ==
    [k \in {SnakeKey(f) : f \in DOMAIN r} |->
        r[CHOOSE f \in DOMAIN r : SnakeKey(f) = k]]

\* camelToSnake(obj) for an array of records
camelToSnake(heap) == [i \in 1..Len(heap) |-> SnakeRecord(heap[i])]

\* JSON.stringify: the text is held as the value it denotes
Stringify(x) == <<"json", x>>

\* what handleCopyToClipboard hands to navigator.clipboard.writeText
CopyPayload(i, heap) ==
    IF i = "popup" THEN Stringify(heap) ELSE Stringify(camelToSnake(heap))

-----------------------------------------------------------------------------
(* handleGetCookies: from the Buffer read to the decision to write *)

\* the mutant: the array pushed onto is written back as it is
PopupMergeNoDedupe(heap, cookies) ==
    LET pushed == heap \o cookies
    IN [received |-> pushed, updatedHeap |-> pushed,
        write |-> Len(pushed) # Len(heap)]

\* popup.js: push onto the array received, fold, write unless the length is
\* the one read
PopupMerge(heap, cookies) ==
    LET pushed == heap \o cookies
        updatedHeap == MapValues(FoldCookies(<<>>, pushed, 1))
    IN [received |-> pushed, updatedHeap |-> updatedHeap,
        write |-> Len(updatedHeap) # Len(heap)]

\* the mutant: part_000 writes whenever the merge differs from what was read
ManagerMergeWritesOnChange(heap, cookies) ==
    LET updatedHeap == mergeAndDedupeCookies(heap, cookies)
    IN [received |-> heap, updatedHeap |-> updatedHeap,
        write |-> updatedHeap # heap]

\* part_000: merge into a new array, write when it is longer than the one read
ManagerMerge(heap, cookies) ==
    LET updatedHeap == mergeAndDedupeCookies(heap, cookies)
    IN [received |-> heap, updatedHeap |-> updatedHeap,
        write |-> Len(updatedHeap) > Len(heap)]

\* the mutant: the two sequences are concatenated and nothing is folded
MergeStepNoDedupe(i, heap, cookies) ==
    [received |-> heap, updatedHeap |-> heap \o cookies,
     write |-> Len(cookies) > 0]

MergeStep(i, heap, cookies) ==
    IF i = "popup" THEN PopupMerge(heap, cookies) ELSE ManagerMerge(heap, cookies)

-----------------------------------------------------------------------------
(* Initial state: the background script has run, the popup has just loaded *)

InitProgram(ref) ==
    /\ impl \in Impls
    /\ byReference = ref
    /\ objs = [i \in ObjIds |-> <<>>]
    /\ cookiesHeap = IF ref THEN Ref(0) ELSE Val(<<>>)
    /\ pc = [a \in Actors |-> IF a = "main" THEN "i_heap" ELSE "idle"]
    /\ loc = [p \in Procs |-> EmptyLoc]
    /\ msgs = [s \in Senders |-> IF s = "main" THEN [type |-> "getCookiesHeap"] ELSE NoMsg]
    /\ port = [s \in Senders |-> NoPort]
    /\ errorBanner = ""
    /\ clipboard = <<>>
    /\ used = [clicks |-> 0, other |-> 0]

Init ==
    /\ InitProgram(FALSE)
    /\ fn = [op |-> "none"]

\* the action of p ends, its locals die
Finish(p) ==
    /\ pc' = [pc EXCEPT ![p] = "idle"]
    /\ loc' = [loc EXCEPT ![p] = EmptyLoc]

FirstFree(p) ==
    /\ pc[p] = "idle"
    /\ \A q \in Procs : Slot(q) < Slot(p) => pc[q] # "idle"

\* the last conjunct of every action that may touch array objects
CollectObjs(o) == objs' = Collect(o, LiveRefs(cookiesHeap', port', msgs'))

-----------------------------------------------------------------------------
(* The transport and the Holder *)

\* the Holder's listener runs to completion on the request of sender s
OnMessage(s) ==
    /\ msgs[s] # NoMsg
    /\ LET r == Listener(cookiesHeap, msgs[s])
       IN /\ cookiesHeap' = r.cookiesHeap
          /\ port' = [port EXCEPT ![s] = r.port]
    /\ msgs' = [msgs EXCEPT ![s] = NoMsg]
    /\ UNCHANGED <<impl, byReference, pc, loc, errorBanner, clipboard, used, fn>>
    /\ CollectObjs(objs)

\* the round trip fails: chrome.runtime.lastError is set, or the callback is
\* called with no response
TransportFails(s) ==
    /\ s \in Actors
    /\ msgs[s] # NoMsg
    /\ \E k \in {"lastError", "undefined"} : port' = [port EXCEPT ![s] = [kind |-> k]]
    /\ msgs' = [msgs EXCEPT ![s] = NoMsg]
    /\ UNCHANGED <<impl, byReference, cookiesHeap, pc, loc, errorBanner, clipboard, used, fn>>
    /\ CollectObjs(objs)

\* another context of the extension sends a message of a type the Holder does
\* not know
ExtSends ==
    /\ msgs["ext"] = NoMsg
    /\ used.other < MaxOther
    /\ used' = [used EXCEPT !.other = @ + 1]
    /\ msgs' = [msgs EXCEPT !["ext"] = [type |-> "other"]]
    /\ port' = [port EXCEPT !["ext"] = NoPort]
    /\ UNCHANGED <<impl, byReference, objs, cookiesHeap, pc, loc, errorBanner,
                   clipboard, fn>>

-----------------------------------------------------------------------------
(* initialize *)

InitializeReturns ==
    /\ pc["main"] = "i_heap"
    /\ port["main"] # NoPort
    /\ LET r == getCookiesHeap(port["main"])
       IN errorBanner' = IF r.threw THEN InitError(r.message) ELSE errorBanner
    /\ pc' = [pc EXCEPT !["main"] = "done"]
    /\ port' = [port EXCEPT !["main"] = NoPort]
    /\ UNCHANGED <<impl, byReference, cookiesHeap, loc, msgs, clipboard, used, fn>>
    /\ CollectObjs(objs)

-----------------------------------------------------------------------------
(* handleGetCookies *)

\* the mutant: every cookie is added under a key of its own
RECURSIVE CollectIntoNoKey(_, _, _, _)
CollectIntoNoKey(cookieMap, cookies, origin, i) ==
    IF i > Len(cookies) THEN cookieMap
    ELSE CollectIntoNoKey(Append(cookieMap, <<CookieKey(cookies[i]),
                                              cleanCookie(cookies[i], origin)>>),
                          cookies, origin, i + 1)

\* cookies.forEach(cookie => cookieMap.set(key, cleanCookie(cookie, url)))
RECURSIVE CollectInto(_, _, _, _)
CollectInto(cookieMap, cookies, origin, i) ==
    IF i > Len(cookies) THEN cookieMap
    ELSE CollectInto(MapSet(cookieMap, CookieKey(cookies[i]), cleanCookie(cookies[i], origin)),
                     cookies, origin, i + 1)

\* getAllCookies as one function: the queries resolve in the order given, each
\* with its answer, from the i-th on
RECURSIVE CollectInOrder(_, _, _, _, _)
CollectInOrder(cookieMap, order, answers, origin, i) ==
    IF i > Len(order) THEN cookieMap
    ELSE CollectInOrder(CollectInto(cookieMap, answers[order[i]], origin, 1),
                        order, answers, origin, i + 1)

getAllCookies(origin, order, answers) ==
    MapValues(CollectInOrder(<<>>, order, answers, origin, 1))

\* the click: the handler runs up to await getActiveTab()
ClickGetCookies(p) ==
    /\ FirstFree(p)
    /\ used.clicks < MaxClicks
    /\ used' = [used EXCEPT !.clicks = @ + 1]
    /\ pc' = [pc EXCEPT ![p] = "g_tab"]
    /\ UNCHANGED <<impl, byReference, objs, cookiesHeap, loc, msgs, port, errorBanner,
                   clipboard, fn>>

\* getAllCookies is through: the handler goes on to await getCookiesHeap()
AwaitHeapForGet(p, origin, cookies) ==
    /\ pc' = [pc EXCEPT ![p] = "g_heap"]
    /\ loc' = [loc EXCEPT ![p] = [EmptyLoc EXCEPT !.origin = origin, !.cookies = cookies]]
    /\ msgs' = [msgs EXCEPT ![p] = [type |-> "getCookiesHeap"]]

\* the tab is known: getSubdomains, then one cookie query per domain, all at once
TabResolves(p, page) ==
    /\ pc[p] = "g_tab"
    /\ LET domains == getSubdomains(page.hostname)
       IN IF domains = <<>>
          THEN AwaitHeapForGet(p, page.origin, <<>>)
          ELSE /\ pc' = [pc EXCEPT ![p] = "g_cookies"]
               /\ loc' = [loc EXCEPT ![p] = [EmptyLoc EXCEPT !.origin = page.origin,
                                                             !.pending = Range(domains)]]
               /\ UNCHANGED msgs
    /\ UNCHANGED <<impl, byReference, objs, cookiesHeap, port, errorBanner, clipboard, used, fn>>

\* the catch block of handleGetCookies
GetFails(p, message) ==
    /\ errorBanner' = GetError(message)
    /\ Finish(p)

\* getActiveTab rejects, or there is no tab whose url new URL() takes
TabFails(p) ==
    /\ pc[p] = "g_tab"
    /\ GetFails(p, TabError)
    /\ UNCHANGED <<impl, byReference, objs, cookiesHeap, msgs, port, clipboard, used, fn>>

\* the query for domain d resolves; with the last one Promise.all resolves
CookiesResolve(p, d, answer) ==
    /\ pc[p] = "g_cookies"
    /\ d \in loc[p].pending
    /\ LET cookieMap == CollectInto(loc[p].cookieMap, answer, loc[p].origin, 1)
       IN IF loc[p].pending = {d}
          THEN AwaitHeapForGet(p, loc[p].origin, MapValues(cookieMap))
          ELSE /\ loc' = [loc EXCEPT ![p].pending = @ \ {d}, ![p].cookieMap = cookieMap]
               /\ UNCHANGED <<pc, msgs>>
    /\ UNCHANGED <<impl, byReference, objs, cookiesHeap, port, errorBanner, clipboard, used, fn>>

\* a query rejects, and Promise.all with it
CookiesReject(p) ==
    /\ pc[p] = "g_cookies"
    /\ GetFails(p, CookiesError)
    /\ UNCHANGED <<impl, byReference, objs, cookiesHeap, msgs, port, clipboard, used, fn>>

\* the mutant: a failed read of the Buffer is sent again
HeapReturnsToGetRetries(p) ==
    /\ pc[p] = "g_heap"
    /\ port[p] # NoPort
    /\ port' = [port EXCEPT ![p] = NoPort]
    /\ msgs' = [msgs EXCEPT ![p] = [type |-> "getCookiesHeap"]]
    /\ UNCHANGED <<impl, byReference, cookiesHeap, pc, loc, errorBanner, clipboard,
                   used, fn>>
    /\ CollectObjs(objs)

\* getCookiesHeap() settles: merge, and write back or return
HeapReturnsToGet(p) ==
    /\ pc[p] = "g_heap"
    /\ port[p] # NoPort
    /\ port' = [port EXCEPT ![p] = NoPort]
    /\ LET r == getCookiesHeap(port[p])
       IN IF r.threw
          THEN /\ GetFails(p, r.message)
               /\ UNCHANGED <<msgs, cookiesHeap>>
               /\ CollectObjs(objs)
          ELSE LET m == MergeStep(impl, Deref(objs, r.value), loc[p].cookies)
                   \* push() changes the array received, wherever it lives
                   pushed == IF IsRef(r.value)
                             THEN [objs EXCEPT ![r.value.ref] = m.received]
                             ELSE objs
                   id == FreeId(LiveRefs(cookiesHeap, port', msgs))
               IN /\ UNCHANGED <<cookiesHeap, errorBanner>>
                  /\ IF m.write
                     THEN /\ pc' = [pc EXCEPT ![p] = "g_set"]
                          /\ loc' = [loc EXCEPT ![p] = EmptyLoc]
                          /\ msgs' = [msgs EXCEPT ![p] =
                                        [type |-> "setCookiesHeap",
                                         value |-> IF byReference THEN Ref(id)
                                                   ELSE Val(m.updatedHeap)]]
                          /\ CollectObjs(IF byReference
                                         THEN [pushed EXCEPT ![id] = m.updatedHeap]
                                         ELSE pushed)
                     ELSE /\ Finish(p)
                          /\ UNCHANGED msgs
                          /\ CollectObjs(pushed)
    /\ UNCHANGED <<impl, byReference, clipboard, used, fn>>

\* setCookiesHeap() settles: clear the banner, or the catch block
SetReturnsToGet(p) ==
    /\ pc[p] = "g_set"
    /\ port[p] # NoPort
    /\ port' = [port EXCEPT ![p] = NoPort]
    /\ LET r == setCookiesHeap(port[p])
       IN errorBanner' = IF r.threw THEN GetError(r.message) ELSE ""
    /\ Finish(p)
    /\ UNCHANGED <<impl, byReference, cookiesHeap, msgs, clipboard, used, fn>>
    /\ CollectObjs(objs)

-----------------------------------------------------------------------------
(* handleCopyToClipboard *)

\* the click: the handler runs up to await getCookiesHeap()
ClickCopy(p) ==
    /\ FirstFree(p)
    /\ used.clicks < MaxClicks
    /\ used' = [used EXCEPT !.clicks = @ + 1]
    /\ pc' = [pc EXCEPT ![p] = "c_heap"]
    /\ msgs' = [msgs EXCEPT ![p] = [type |-> "getCookiesHeap"]]
    /\ UNCHANGED <<impl, byReference, objs, cookiesHeap, loc, port, errorBanner,
                   clipboard, fn>>

\* the catch block of handleCopyToClipboard
CopyFails(p, message) ==
    /\ errorBanner' = CopyError(message)
    /\ Finish(p)

\* the mutant: the length of the heap is not looked at
HeapReturnsToCopyUnchecked(p) ==
    /\ pc[p] = "c_heap"
    /\ port[p] # NoPort
    /\ port' = [port EXCEPT ![p] = NoPort]
    /\ LET r == getCookiesHeap(port[p])
       IN IF r.threw
          THEN CopyFails(p, r.message)
          ELSE /\ pc' = [pc EXCEPT ![p] = "c_clip"]
               /\ loc' = [loc EXCEPT ![p].payload = CopyPayload(impl, Deref(objs, r.value))]
               /\ UNCHANGED errorBanner
    /\ UNCHANGED <<impl, byReference, cookiesHeap, msgs, clipboard, used, fn>>
    /\ CollectObjs(objs)

\* getCookiesHeap() settles: the empty-heap message, or on to the clipboard
HeapReturnsToCopy(p) ==
    /\ pc[p] = "c_heap"
    /\ port[p] # NoPort
    /\ port' = [port EXCEPT ![p] = NoPort]
    /\ LET r == getCookiesHeap(port[p])
       IN IF r.threw
          THEN CopyFails(p, r.message)
          ELSE IF Len(Deref(objs, r.value)) = 0
          THEN /\ errorBanner' = EmptyHeap
               /\ Finish(p)
          ELSE /\ pc' = [pc EXCEPT ![p] = "c_clip"]
               /\ loc' = [loc EXCEPT ![p].payload = CopyPayload(impl, Deref(objs, r.value))]
               /\ UNCHANGED errorBanner
    /\ UNCHANGED <<impl, byReference, cookiesHeap, msgs, clipboard, used, fn>>
    /\ CollectObjs(objs)

\* writeText() resolves: clear the banner and send the empty array to the Holder
ClipboardWritten(p) ==
    /\ pc[p] = "c_clip"
    /\ clipboard' = loc[p].payload
    /\ errorBanner' = ""
    /\ pc' = [pc EXCEPT ![p] = "c_set"]
    /\ LET id == FreeId(LiveRefs(cookiesHeap, port, msgs))
       IN /\ msgs' = [msgs EXCEPT ![p] =
                        [type |-> "setCookiesHeap",
                         value |-> IF byReference THEN Ref(id) ELSE Val(<<>>)]]
          /\ UNCHANGED <<impl, byReference, cookiesHeap, loc, port, used, fn>>
          /\ CollectObjs(IF byReference THEN [objs EXCEPT ![id] = <<>>] ELSE objs)

\* the mutant: the heap is cleared whether or not writeText() resolved
ClipboardRejectsAndClears(p) ==
    /\ pc[p] = "c_clip"
    /\ errorBanner' = CopyError(ClipboardError)
    /\ pc' = [pc EXCEPT ![p] = "c_set"]
    /\ LET id == FreeId(LiveRefs(cookiesHeap, port, msgs))
       IN /\ msgs' = [msgs EXCEPT ![p] =
                        [type |-> "setCookiesHeap",
                         value |-> IF byReference THEN Ref(id) ELSE Val(<<>>)]]
          /\ UNCHANGED <<impl, byReference, cookiesHeap, loc, port, clipboard, used, fn>>
          /\ CollectObjs(IF byReference THEN [objs EXCEPT ![id] = <<>>] ELSE objs)

\* writeText() rejects
ClipboardRejects(p) ==
    /\ pc[p] = "c_clip"
    /\ CopyFails(p, ClipboardError)
    /\ UNCHANGED <<impl, byReference, objs, cookiesHeap, msgs, port, clipboard, used, fn>>

\* setCookiesHeap([]) settles
SetReturnsToCopy(p) ==
    /\ pc[p] = "c_set"
    /\ port[p] # NoPort
    /\ port' = [port EXCEPT ![p] = NoPort]
    /\ LET r == setCookiesHeap(port[p])
       IN errorBanner' = IF r.threw THEN CopyError(r.message) ELSE errorBanner
    /\ Finish(p)
    /\ UNCHANGED <<impl, byReference, cookiesHeap, msgs, clipboard, used, fn>>
    /\ CollectObjs(objs)

-----------------------------------------------------------------------------
(* The program *)

Next ==
    \/ \E s \in Senders : OnMessage(s)
    \/ \E s \in Senders : TransportFails(s)
    \/ InitializeReturns
    \/ \E p \in Procs : ClickGetCookies(p)
    \/ \E p \in Procs, page \in Pages : TabResolves(p, page)
    \/ \E p \in Procs : TabFails(p)
    \/ \E p \in Procs : \E d \in loc[p].pending, answer \in Answers : CookiesResolve(p, d, answer)
    \/ \E p \in Procs : CookiesReject(p)
    \/ \E p \in Procs : HeapReturnsToGet(p)
    \/ \E p \in Procs : SetReturnsToGet(p)
    \/ \E p \in Procs : ClickCopy(p)
    \/ \E p \in Procs : HeapReturnsToCopy(p)
    \/ \E p \in Procs : ClipboardWritten(p)
    \/ \E p \in Procs : ClipboardRejects(p)
    \/ \E p \in Procs : SetReturnsToCopy(p)

\* the extension in the browser: messages are serialised, arrays are copied
Spec == Init /\ [][Next]_vars

\* the Holder among foreign messages, with one run of a handler at a time
NextHolder ==
    \/ ExtSends
    \/ (Next /\ pc'["p2"] = "idle")

SpecHolder == Init /\ [][NextHolder]_vars

\* the Holder hands out the sequence it holds, not a copy
InitShared ==
    /\ InitProgram(TRUE)
    /\ fn = [op |-> "none"]

SpecShared == InitShared /\ [][Next]_vars

\* the popup is opened again: the background script still holds what a
\* get-cookies action of an earlier popup session wrote
Accumulated == <<cleanCookie(RawA("v2"), "https://e.c")>>

InitAccumulated ==
    /\ impl \in Impls
    /\ byReference = FALSE
    /\ objs = [i \in ObjIds |-> <<>>]
    /\ cookiesHeap = Val(Accumulated)
    /\ pc = [a \in Actors |-> IF a = "main" THEN "i_heap" ELSE "idle"]
    /\ loc = [p \in Procs |-> EmptyLoc]
    /\ msgs = [s \in Senders |-> IF s = "main" THEN [type |-> "getCookiesHeap"] ELSE NoMsg]
    /\ port = [s \in Senders |-> NoPort]
    /\ errorBanner = ""
    /\ clipboard = <<>>
    /\ used = [clicks |-> 0, other |-> 0]
    /\ fn = [op |-> "none"]

SpecAccumulated == InitAccumulated /\ [][Next]_vars

\* what goes on for the action instance p once it is triggered: the callbacks
\* of its collaborators' answers and failures, and its own continuations
Progress(p) ==
    \/ OnMessage(p)
    \/ TransportFails(p)
    \/ \E page \in Pages : TabResolves(p, page)
    \/ TabFails(p)
    \/ \E d \in loc[p].pending, answer \in Answers : CookiesResolve(p, d, answer)
    \/ CookiesReject(p)
    \/ HeapReturnsToGet(p)
    \/ SetReturnsToGet(p)
    \/ HeapReturnsToCopy(p)
    \/ ClipboardWritten(p)
    \/ ClipboardRejects(p)
    \/ SetReturnsToCopy(p)

\* every collaborator call eventually responds or fails, and the event loop
\* runs every callback that is ready
SpecLive == Init /\ [][Next]_vars /\ \A p \in Procs : WF_vars(Progress(p))

-----------------------------------------------------------------------------
(* The pure functions on their own: one call, on any input within the bounds *)

Labels == {"", "a", "b"}
Hostnames == UNION {[1..k -> Labels] : k \in 1..MaxLabels}

Origins == {"https://e.c", "http://localhost"}
FieldPool == StrippedFields \cup {"name", "domain", "value", "url"}
\* one cookie object per set of fields; the value of a field names the field
CookieObjects == {[f \in F |-> f \o "@in"] : F \in SUBSET FieldPool}

\* records of three identity keys: one key made by two different (name,
\* domain) pairs, one key with two values, one key with a single record
MergePool == { [name |-> "a", domain |-> "b_c", value |-> "v1"],
               [name |-> "a_b", domain |-> "c", value |-> "v2"],
               [name |-> "a", domain |-> "c", value |-> "v1"],
               [name |-> "a", domain |-> "c", value |-> "v2"],
               [name |-> "b", domain |-> "c", value |-> "v1"] }

\* what one query may resolve to
FnAnswers == Answers \cup {<<RawB>>}
\* the orders in which the queries for the domains of s may complete
Orders(s) == {o \in [1..Len(s) -> Range(s)] : \A i, j \in 1..Len(s) : o[i] = o[j] => i = j}

CollectInputs ==
    UNION {
        LET domains == getSubdomains(page.hostname)
        IN {[op |-> "getAllCookies", origin |-> page.origin, domains |-> domains,
             answers |-> a, order |-> o, done |-> FALSE, out |-> <<>>,
             twice |-> FALSE, again |-> <<>>] :
                a \in [Range(domains) -> FnAnswers], o \in Orders(domains)}
        : page \in Pages}

FnInputs ==
    CollectInputs \cup
    {[op |-> "getSubdomains", parts |-> h, done |-> FALSE, out |-> <<>>] : h \in Hostnames}
    \cup {[op |-> "cleanCookie", cookie |-> c, origin |-> o, done |-> FALSE, out |-> <<>>] :
            c \in CookieObjects, o \in Origins}
    \cup {[op |-> "merge", existing |-> e, incoming |-> n, done |-> FALSE, out |-> <<>>,
            twice |-> FALSE, again |-> <<>>] :
            e \in SeqsUpTo(MergePool, MaxLen), n \in SeqsUpTo(MergePool, MaxLen)}

InitFn ==
    /\ InitProgram(FALSE)
    /\ fn \in FnInputs

Return(result) ==
    /\ ~fn.done
    /\ fn' = [fn EXCEPT !.done = TRUE, !.out = result]
    /\ UNCHANGED <<impl, byReference, objs, cookiesHeap, pc, loc, msgs, port,
                   errorBanner, clipboard, used>>

CallGetSubdomains ==
    /\ fn.op = "getSubdomains"
    /\ Return(getSubdomains(fn.parts))

CallCleanCookie ==
    /\ fn.op = "cleanCookie"
    /\ Return(cleanCookie(fn.cookie, fn.origin))

\* the merge of handleGetCookies, inline in popup.js, a method in part_000
CallMerge ==
    /\ fn.op = "merge"
    /\ Return(MergeStep(impl, fn.existing, fn.incoming).updatedHeap)

\* the next click collects the same cookies: the merge is applied to its own
\* result and the same incoming sequence
CallMergeAgain ==
    /\ fn.op = "merge" /\ fn.done /\ ~fn.twice
    /\ fn' = [fn EXCEPT !.twice = TRUE,
                        !.again = MergeStep(impl, fn.out, fn.incoming).updatedHeap]
    /\ UNCHANGED <<impl, byReference, objs, cookiesHeap, pc, loc, msgs, port,
                   errorBanner, clipboard, used>>

\* getAllCookies with the queries completing in the order fn.order
CallGetAllCookies ==
    /\ fn.op = "getAllCookies"
    /\ Return(getAllCookies(fn.origin, fn.order, fn.answers))

\* the same call with the same answers, the queries completing in the order
\* they were issued in
CallGetAllCookiesInIssueOrder ==
    /\ fn.op = "getAllCookies" /\ fn.done /\ ~fn.twice
    /\ fn' = [fn EXCEPT !.twice = TRUE,
                        !.again = getAllCookies(fn.origin, fn.domains, fn.answers)]
    /\ UNCHANGED <<impl, byReference, objs, cookiesHeap, pc, loc, msgs, port,
                   errorBanner, clipboard, used>>

NextFn ==
    \/ CallGetSubdomains
    \/ CallCleanCookie
    \/ CallMerge
    \/ CallMergeAgain
    \/ CallGetAllCookies
    \/ CallGetAllCookiesInIssueOrder

SpecFn == InitFn /\ [][NextFn]_vars

-----------------------------------------------------------------------------
(* Claims about the pure functions, under SpecFn *)

Dotted(S) == {"." \o x : x \in S}
\* the bare forms of the suffixes labels[i:] for the 0-based i in from..to
Suffixes(parts, from, to) == {Join(Slice(parts, i)) : i \in from..to}
LastTwo(parts) == {Join(Slice(parts, Len(parts) - 2))}

SubdomainsCalled == fn.op = "getSubdomains" /\ fn.done /\ Len(fn.parts) >= 2

\* C2 as stated: for a hostname of k >= 2 labels getSubdomains returns, without
\* duplicates, exactly the bare and the dot-prefixed form of every suffix
\* labels[i:] for i in 0..k-1, and of the last two labels.
C2_EverySuffix ==
    SubdomainsCalled =>
        LET k == Len(fn.parts)
            bare == Suffixes(fn.parts, 0, k - 1) \cup LastTwo(fn.parts)
        IN /\ Range(fn.out) = bare \cup Dotted(bare)
           /\ NoDuplicates(fn.out)

\* C2 amended: for a hostname of k >= 2 labels getSubdomains returns, without
\* duplicates, exactly the bare and the dot-prefixed form of every suffix
\* labels[i:] for i in 0..k-2; the last label alone is not among them, and the
\* last two labels are the suffix of i = k-2.
C2_SuffixesOfTwoOrMore ==
    SubdomainsCalled =>
        LET k == Len(fn.parts)
            bare == Suffixes(fn.parts, 0, k - 2)
        IN /\ Range(fn.out) = bare \cup Dotted(bare)
           /\ LastTwo(fn.parts) \subseteq bare
           /\ NoDuplicates(fn.out)

\* a hostname of three labels whose four variants are all different
C2_Witness ==
    /\ SubdomainsCalled
    /\ Len(fn.parts) = 3
    /\ Len(fn.out) = 4

\* C15 as stated: for a hostname of exactly one label getSubdomains returns
\* the bare hostname and its dot-prefixed form (so that a get-cookies action on
\* such a page has at least one domain to query).
C15_OneLabelTwoVariants ==
    (fn.op = "getSubdomains" /\ fn.done /\ Len(fn.parts) = 1)
        => Range(fn.out) = {fn.parts[1], "." \o fn.parts[1]}

Keys(s) == {CookieKey(s[i]) : i \in 1..Len(s)}
FirstIndex(s, k) == CHOOSE i \in 1..Len(s) :
    CookieKey(s[i]) = k /\ \A j \in 1..(i - 1) : CookieKey(s[j]) # k
LastIndex(s, k) == CHOOSE i \in 1..Len(s) :
    CookieKey(s[i]) = k /\ \A j \in (i + 1)..Len(s) : CookieKey(s[j]) # k
NoDuplicateKeys(s) == \A i, j \in 1..Len(s) : CookieKey(s[i]) = CookieKey(s[j]) => i = j

\* C3: the merge of existing and incoming has exactly one record per identity
\* key of existing ++ incoming, the record kept for a key is its last
\* occurrence there, and the records stand in the order of the keys' first
\* occurrences.
C3_MergeLastWinsFirstOrder ==
    (fn.op = "merge" /\ fn.done) =>
        LET all == fn.existing \o fn.incoming
        IN /\ NoDuplicateKeys(fn.out)
           /\ Keys(fn.out) = Keys(all)
           /\ \A i \in 1..Len(fn.out) :
                fn.out[i] = all[LastIndex(all, CookieKey(fn.out[i]))]
           /\ \A i, j \in 1..Len(fn.out) :
                i < j => FirstIndex(all, CookieKey(fn.out[i]))
                            < FirstIndex(all, CookieKey(fn.out[j]))

\* an incoming record replaces an existing one of the same key, in its place,
\* ahead of a record whose key came later
C3_Witness ==
    /\ fn.op = "merge" /\ fn.done
    /\ Len(fn.existing) = 2 /\ Len(fn.out) = 2
    /\ fn.out[1] \in Range(fn.incoming) \ Range(fn.existing)
    /\ fn.out[2] = fn.existing[2]

\* C10: cleanCookie returns the input's fields without storeId, hostOnly,
\* expirationDate and session, each with its input value, and url set to the
\* page's origin whatever url the input had.
C10_CleanStripsFourAddsUrl ==
    (fn.op = "cleanCookie" /\ fn.done) =>
        /\ DOMAIN fn.out =
              {f \in DOMAIN fn.cookie :
                  f \notin {"storeId", "hostOnly", "expirationDate", "session"}}
              \cup {"url"}
        /\ fn.out["url"] = fn.origin
        /\ \A f \in (DOMAIN fn.out) \ {"url"} : fn.out[f] = fn.cookie[f]

\* a cookie with all four fields to strip and a url of its own
C10_Witness ==
    /\ fn.op = "cleanCookie" /\ fn.done
    /\ {"storeId", "hostOnly", "expirationDate", "session", "url", "name"}
          \subseteq DOMAIN fn.cookie
    /\ fn.cookie["url"] # fn.origin

\* the record s holds for key k, for an s without duplicate keys
RecordOf(s, k) == s[FirstIndex(s, k)]

\* C11: for every X without duplicate identity keys the merge of X with the
\* empty sequence has the identity keys of X, each with the record X holds for
\* it (and in the order of X); and merging the same incoming sequence into the
\* result of a merge gives that result again.
C11_MergeEmptyIdentityTwiceSame ==
    /\ (fn.op = "merge" /\ fn.done /\ fn.incoming = <<>> /\ NoDuplicateKeys(fn.existing))
          => /\ Keys(fn.out) = Keys(fn.existing)
             /\ NoDuplicateKeys(fn.out)
             /\ \A k \in Keys(fn.out) : RecordOf(fn.out, k) = RecordOf(fn.existing, k)
             /\ fn.out = fn.existing
    /\ (fn.op = "merge" /\ fn.twice) => fn.again = fn.out

\* two records of different keys have been merged with nothing, twice
C11_Witness ==
    /\ fn.op = "merge" /\ fn.twice
    /\ fn.incoming = <<>>
    /\ Len(fn.existing) = 2 /\ NoDuplicateKeys(fn.existing)

\* the cookies the query for domain d returned, cleaned
Returned(d) ==
    {cleanCookie(fn.answers[d][i], fn.origin) : i \in 1..Len(fn.answers[d])}
AllReturned == UNION {Returned(d) : d \in Range(fn.domains)}
\* the identity keys returned by exactly one query
SingleKeys ==
    {k \in {CookieKey(c) : c \in AllReturned} :
        Cardinality({d \in Range(fn.domains) :
                        k \in {CookieKey(c) : c \in Returned(d)}}) = 1}

CollectedTwice == fn.op = "getAllCookies" /\ fn.twice

\* in either completion order: one record per identity key returned by any
\* query, each a cleaned record some query returned, and nothing else
OnePerReturnedKey(result) ==
    /\ NoDuplicateKeys(result)
    /\ Range(result) \subseteq AllReturned
    /\ Keys(result) = {CookieKey(c) : c \in AllReturned}

\* C13 as stated: getAllCookies returns the same sequence for every completion
\* order of the queries, except for which record is kept for an identity key
\* returned by more than one query, and has exactly one record per identity key
\* returned by any query and nothing else.
C13_SameSequenceAnyOrder ==
    CollectedTwice =>
        /\ OnePerReturnedKey(fn.out) /\ OnePerReturnedKey(fn.again)
        /\ Len(fn.out) = Len(fn.again)
        /\ \A i \in 1..Len(fn.out) :
              /\ CookieKey(fn.out[i]) = CookieKey(fn.again[i])
              /\ CookieKey(fn.out[i]) \in SingleKeys => fn.out[i] = fn.again[i]

\* C13 amended: in every completion order getAllCookies returns exactly one
\* record per identity key returned by any query and nothing else, and the
\* same record for a key only one query returned; the order of the records
\* and the record kept for a key returned by more than one query depend on
\* the completion order.
C13_SameKeysAnyOrder ==
    CollectedTwice =>
        /\ OnePerReturnedKey(fn.out) /\ OnePerReturnedKey(fn.again)
        /\ \A k \in SingleKeys : RecordOf(fn.out, k) = RecordOf(fn.again, k)

\* two queries, both with cookies, completed in an order that puts the
\* records the other way round than the order of issue does
C13_Witness ==
    /\ CollectedTwice
    /\ Len(fn.domains) = 2
    /\ \A d \in Range(fn.domains) : fn.answers[d] # <<>>
    /\ Len(fn.out) = 2
    /\ fn.out[1] = fn.again[2] /\ fn.out[2] = fn.again[1]

-----------------------------------------------------------------------------
(* Claims about the Holder and the two UI actions *)

\* the Holder's Buffer
Buffer == Deref(objs, cookiesHeap)

\* C1: in every reachable state, whatever get-cookies and copy actions have run
\* and however their steps interleave, no two records of the Holder's Buffer
\* have the same identity key.
C1_NoDuplicateKeysInBuffer == NoDuplicateKeys(Buffer)

\* two records are held while another get-cookies action's replace-all is on
\* its way
C1_Witness ==
    /\ Len(Buffer) = 2
    /\ \E p \in Procs : pc[p] = "g_set" /\ msgs[p].type = "setCookiesHeap"

\* C4: a copy action sends replace-all, with the empty sequence, only in the
\* step in which its clipboard write succeeds; when the clipboard write fails
\* the action ends, sends nothing, and leaves the Buffer and the clipboard as
\* they were.
C4_ClearOnlyAfterClipboardWrite ==
    [][\A p \in Procs :
        /\ (pc'[p] \in {"c_heap", "c_clip", "c_set"} /\ msgs'[p].type = "setCookiesHeap"
                /\ msgs[p] # msgs'[p])
              => /\ pc[p] = "c_clip"
                 /\ clipboard' = loc[p].payload
                 /\ Deref(objs', msgs'[p].value) = <<>>
        /\ (pc[p] = "c_clip" /\ pc'[p] \notin {"c_clip", "idle"})
              => /\ pc'[p] = "c_set"
                 /\ clipboard' = loc[p].payload
        /\ (pc[p] = "c_clip" /\ pc'[p] = "idle")
              => /\ msgs'[p] = NoMsg
                 /\ cookiesHeap' = cookiesHeap /\ objs' = objs
                 /\ clipboard' = clipboard
                 /\ errorBanner' = CopyError(ClipboardError)
      ]_vars

\* a clipboard write has failed and the records are still in the Buffer, with
\* no request on its way
C4_Witness ==
    /\ errorBanner = CopyError(ClipboardError)
    /\ Len(Buffer) > 0
    /\ \A p \in Procs : pc[p] = "idle" /\ msgs[p] = NoMsg

\* the callback of p's getCookiesHeap request runs with the Holder's answer
HeapAnswered(p, at) ==
    /\ pc[p] = at /\ pc'[p] # at
    /\ port[p].kind = "response"

\* C6: a copy action that reads an empty Buffer starts no clipboard write and
\* sends no replace-all, leaves the Buffer and the clipboard as they are, and
\* shows the empty-heap message.
C6_CopyOfEmptyBuffer ==
    [][\A p \in Procs :
        (HeapAnswered(p, "c_heap") /\ Len(Deref(objs, port[p].body.value)) = 0)
            => /\ pc'[p] = "idle"
               /\ msgs'[p] = NoMsg
               /\ clipboard' = clipboard
               /\ cookiesHeap' = cookiesHeap /\ Deref(objs', cookiesHeap') = Buffer
               /\ errorBanner' = EmptyHeap
      ]_vars

\* the empty-heap message is up, nothing was written, nothing is on its way
C6_Witness ==
    /\ errorBanner = EmptyHeap
    /\ clipboard = <<>>
    /\ Buffer = <<>>
    /\ \A p \in Procs : pc[p] = "idle" /\ msgs[p] = NoMsg

\* the Holder's listener has run on the request of sender s
Handled(s) ==
    /\ msgs[s] # NoMsg /\ msgs'[s] = NoMsg
    /\ port'[s].kind \in {"response", "noResponse"}

\* C7: the Holder answers getCookiesHeap with {value: Buffer} and leaves the
\* Buffer as it is; on setCookiesHeap it replaces the Buffer with the value
\* given, in that one step, and answers {status: "success"}; a message of any
\* other type gets no response and leaves the Buffer as it is.
C7_HolderTwoRequestKinds ==
    [][\A s \in Senders :
        Handled(s) =>
            IF msgs[s].type = "getCookiesHeap"
            THEN /\ port'[s] = [kind |-> "response", body |-> [value |-> cookiesHeap]]
                 /\ cookiesHeap' = cookiesHeap
            ELSE IF msgs[s].type = "setCookiesHeap"
            THEN /\ port'[s] = [kind |-> "response", body |-> [status |-> "success"]]
                 /\ cookiesHeap' = msgs[s].value
            ELSE /\ port'[s].kind = "noResponse"
                 /\ cookiesHeap' = cookiesHeap
      ]_vars

\* a foreign message went unanswered while the Buffer holds what a
\* setCookiesHeap gave it
C7_Witness ==
    /\ port["ext"].kind = "noResponse"
    /\ Len(Buffer) > 0
    /\ \E p \in Procs : pc[p] = "g_set" /\ port[p].kind = "response"

\* C8 as stated: when the round trip of a UI action fails or brings no usable
\* response, for getCookiesHeap and for setCookiesHeap alike, the action ends
\* in its catch block with an error message of its own.
C8_FailedRoundTripRaises ==
    [][\A p \in Procs :
        (pc[p] \in {"g_heap", "g_set", "c_heap", "c_set"} /\ pc'[p] # pc[p]
            /\ port[p].kind \in {"lastError", "undefined"})
          => /\ pc'[p] = "idle"
             /\ errorBanner' \in {GetError(m) : m \in {LastError, NoResponse, UpdateFailed}}
                            \cup {CopyError(m) : m \in {LastError, NoResponse, UpdateFailed}}
      ]_vars

\* the action of p ends in this step, and not in its catch block or on the
\* empty-heap message
EndsWithoutError(p) ==
    /\ pc'[p] = "idle"
    /\ port[p] # NoPort
    /\ \/ pc[p] = "g_heap" /\ ~getCookiesHeap(port[p]).threw
       \/ pc[p] \in {"g_set", "c_set"} /\ ~setCookiesHeap(port[p]).threw

\* the step puts up an error message
ShowsError == errorBanner' # errorBanner /\ errorBanner' # ""

\* the step is the failure of initialize or of an action
SomethingFails ==
    \/ pc["main"] = "i_heap" /\ pc'["main"] = "done"
    \/ \E p \in Procs : pc[p] # "idle" /\ pc'[p] = "idle" /\ ~EndsWithoutError(p)

\* C9 as stated: an error message is put up only by a failure, and after any
\* get-cookies or copy action that ends without error, the "nothing new" path
\* of get-cookies included, the error banner is empty.
C9_BannerClearedBySuccess ==
    [][/\ ShowsError => SomethingFails
       /\ \A p \in Procs : EndsWithoutError(p) => errorBanner' = ""
      ]_vars

\* C5 as stated: a get-cookies action whose collected cookies bring no identity
\* key that the Buffer it read does not have sends no replace-all and leaves
\* the Holder's Buffer as it was: the same records in the same order.
C5_NothingNewNoWrite ==
    [][\A p \in Procs :
        (HeapAnswered(p, "g_heap")
            /\ Keys(loc[p].cookies) \subseteq Keys(Deref(objs, port[p].body.value)))
          => /\ pc'[p] = "idle"
             /\ msgs'[p] = NoMsg
             /\ Deref(objs', cookiesHeap') = Buffer
      ]_vars

\* the Holder applies the replace-all that the get-cookies action p sent
GetWriteApplied(p) ==
    /\ pc[p] = "g_set"
    /\ msgs[p].type = "setCookiesHeap"
    /\ Handled(p)

\* C12 as stated: every replace-all of a get-cookies action writes a sequence
\* whose identity keys include every key the Holder's Buffer holds when the
\* write is applied, however the actions interleave between their read of the
\* Buffer and their write.
C12_WriteKeepsBufferKeys ==
    [][\A p \in Procs :
        GetWriteApplied(p) => Keys(Buffer) \subseteq Keys(Deref(objs, msgs[p].value))
      ]_vars

\* how far along its handler an action instance is; idle is where it ends
Stage(at) ==
    IF at \in {"g_tab", "c_heap"} THEN 1
    ELSE IF at \in {"g_cookies", "c_clip"} THEN 2
    ELSE IF at \in {"g_heap", "c_set"} THEN 3
    ELSE IF at = "g_set" THEN 4
    ELSE 5

\* a triggered action only moves forward, sends a request only as it moves,
\* and asks the cookie store for no domain a second time
NoStepRetried(p) ==
    pc[p] # "idle" =>
        /\ pc'[p] # pc[p] => Stage(pc'[p]) > Stage(pc[p])
        /\ (msgs'[p] # NoMsg /\ msgs'[p] # msgs[p]) => pc'[p] # pc[p]
        /\ pc'[p] = pc[p] => loc'[p].pending \subseteq loc[p].pending

\* C14: when every collaborator call eventually responds or fails, every
\* triggered get-cookies and copy action eventually completes (its instance is
\* idle again, with or without an error banner), and no step of it is retried.
C14_EveryActionCompletes ==
    /\ [][\A p \in Procs : NoStepRetried(p)]_vars
    /\ \A p \in Procs : (pc[p] # "idle") ~> (pc[p] = "idle")

\* every click is through: a get-cookies has written to the Holder and a later
\* one has ended in its catch block
C14_Witness ==
    /\ used.clicks = MaxClicks
    /\ \A p \in Procs : pc[p] = "idle" /\ msgs[p] = NoMsg /\ port[p] = NoPort
    /\ Len(Buffer) > 0
    /\ errorBanner = GetError(CookiesError)

\* the records of s whose keys are not in K, in their order
RECURSIVE Without(_, _)
Without(s, K) ==
    IF s = <<>> THEN <<>>
    ELSE IF CookieKey(Head(s)) \in K THEN Without(Tail(s), K)
    ELSE <<Head(s)>> \o Without(Tail(s), K)

\* written is read with the collected records put in: the records of read
\* stand where they stood, those of a collected key replaced by the collected
\* record, and the records of the new keys follow in the order collected
FrameOfMerge(read, collected, written) ==
    /\ Len(written) >= Len(read)
    /\ \A i \in 1..Len(read) :
          /\ CookieKey(written[i]) = CookieKey(read[i])
          /\ written[i] = IF CookieKey(read[i]) \in Keys(collected)
                          THEN RecordOf(collected, CookieKey(read[i]))
                          ELSE read[i]
    /\ SubSeq(written, Len(read) + 1, Len(written)) = Without(collected, Keys(read))

CopyClearApplied(p) ==
    /\ pc[p] = "c_set"
    /\ msgs[p].type = "setCookiesHeap"
    /\ Handled(p)

\* record r is in the JSON text the copy action p gave to the clipboard
ExportedBy(p, r) ==
    (IF impl = "popup" THEN r ELSE SnakeRecord(r)) \in Range(loc[p].payload[2])

\* C17 as stated: whenever the replace-all with the empty sequence of a copy
\* action is applied, every record the Holder's Buffer holds at that moment is
\* in the JSON this copy action wrote to the clipboard, also when a
\* get-cookies action has written between the copy action's read and its clear.
C17_ClearedRecordsWereExported ==
    [][\A p \in Procs :
        CopyClearApplied(p) => \A i \in 1..Len(Buffer) : ExportedBy(p, Buffer[i])
      ]_vars

\* C18: for the Buffer a get-cookies action reads and the cookies it has
\* collected, the handler of popup.js and the handler of part_000 decide alike:
\* both send no replace-all, or both send replace-all with the same sequence;
\* the handler that runs does what both decide, and the step leaves the
\* Holder's Buffer as it is.
C18_HandlersDecideAlike ==
    [][\A p \in Procs :
        HeapAnswered(p, "g_heap") =>
            LET read == Deref(objs, port[p].body.value)
                popup == PopupMerge(read, loc[p].cookies)
                manager == ManagerMerge(read, loc[p].cookies)
            IN /\ popup.write = manager.write
               /\ popup.updatedHeap = manager.updatedHeap
               /\ (pc'[p] = "g_set") = popup.write
               /\ (pc'[p] # "g_set") => (pc'[p] = "idle" /\ msgs'[p] = NoMsg)
               /\ (pc'[p] = "g_set") =>
                     /\ msgs'[p].type = "setCookiesHeap"
                     /\ Deref(objs', msgs'[p].value) = popup.updatedHeap
               /\ cookiesHeap' = cookiesHeap
               /\ Deref(objs', cookiesHeap') = Buffer
      ]_vars

\* a get-cookies action has read a Buffer of two records and has collected
\* one record, of a key the Buffer has, with another value: the merge is as
\* long as the Buffer read and differs from it
C18_Witness ==
    \E p \in Procs :
        /\ pc[p] = "g_heap" /\ port[p].kind = "response"
        /\ LET read == Deref(objs, port[p].body.value)
               collected == loc[p].cookies
           IN /\ Len(read) = 2 /\ Len(collected) = 1
              /\ CookieKey(collected[1]) \in Keys(read)
              /\ collected[1] \notin Range(read)

=============================================================================
